---- MODULE Spec2Model ----
EXTENDS Integers, Sequences, FiniteSets, TLC

(***************************************************************************)
(* emis-questionnaire: Indicator / Question documents, the unique indexes, *)
(* the validation hooks, the upsert waterfall and the parallel seed.       *)
(*                                                                         *)
(* A JavaScript object is a function from the names of the fields it has  *)
(* to their values: a field that is absent is outside the DOMAIN.          *)
(***************************************************************************)

VARIABLES
    indicators,   \* the indicators collection: a set of documents
    questions,    \* the questions collection: a set of documents
    questionnaires, \* the questionnaires collection: a set of documents
    nextOid,      \* how many ObjectIds have been generated
    seedModel,    \* the model whose requests and seeds the behaviour issues
    tasks,        \* the upsert tasks of the running seed, in the order of the batch
    completed,    \* async.parallel: how many tasks have completed without error
    cb,           \* what the seed's callback has received: [count, err, results]
    firstErr,     \* history: the error of the first task that failed ("" if none)
    store0,       \* history: the seeded collection when the running seed started
    runs,         \* how many seeds have been started
    seeds,        \* the seeds of the running seed call
    count1,       \* history: documents stored when the first seed had finished
    work,         \* how many requests and upserts have been issued
    last,         \* the outcome of the last REST operation
    app           \* the hosting process: [script, pc, connected, error, thrown, root, mounted, started]

vars == <<indicators, questions, questionnaires, nextOid, seedModel, tasks, completed, cb,
          firstErr, store0, runs, seeds, count1, work, last, app>>

(***************************************************************************)
(* Bounds                                                                  *)
(***************************************************************************)
MaxSeeds == 3     \* length of the seed list passed to one seed call
MaxWork == 2      \* requests and upserts of one behaviour of Spec, seeds of one batch of SpecApp

(***************************************************************************)
(* Objects                                                                 *)
(***************************************************************************)
Null == [null |-> TRUE]

IsNull(x) == "null" \in DOMAIN x

Has(o, f) == f \in DOMAIN o

\* _.pick(object, keys)
Pick(o, keys) == [f \in (DOMAIN o) \cap keys |-> o[f]]

\* _.merge({}, dst, src): the fields of src override those of dst
Merge(dst, src) ==
    [f \in (DOMAIN dst) \cup (DOMAIN src) |-> IF f \in DOMAIN src THEN src[f] ELSE dst[f]]

\* _.isEmpty on a string field
IsEmpty(o, f) == ~Has(o, f) \/ o[f] = <<>>

(***************************************************************************)
(* Strings are sequences of characters, so that the setters of the schema  *)
(* (trim, uppercase) and _.snakeCase are computed, not assumed.            *)
(***************************************************************************)
LowerChars ==
    <<"a", "b", "c", "d", "e", "f", "g", "h", "i", "j", "k", "l", "m",
      "n", "o", "p", "q", "r", "s", "t", "u", "v", "w", "x", "y", "z">>
UpperChars ==
    <<"A", "B", "C", "D", "E", "F", "G", "H", "I", "J", "K", "L", "M",
      "N", "O", "P", "Q", "R", "S", "T", "U", "V", "W", "X", "Y", "Z">>
Digits == {"0", "1", "2", "3", "4", "5", "6", "7", "8", "9"}

IndexOf(c, chars) == CHOOSE i \in 1..Len(chars) : chars[i] = c

IsLower(c) == \E i \in 1..Len(LowerChars) : LowerChars[i] = c
IsUpper(c) == \E i \in 1..Len(UpperChars) : UpperChars[i] = c
IsAlnum(c) == IsLower(c) \/ IsUpper(c) \/ c \in Digits

ToUpperChar(c) == IF IsLower(c) THEN UpperChars[IndexOf(c, LowerChars)] ELSE c
ToLowerChar(c) == IF IsUpper(c) THEN LowerChars[IndexOf(c, UpperChars)] ELSE c

\* String.prototype.toUpperCase
ToUpperCase(s) == [i \in 1..Len(s) |-> ToUpperChar(s[i])]

\* String.prototype.trim
RECURSIVE TrimLeft(_)
TrimLeft(s) == IF s # <<>> /\ Head(s) = " " THEN TrimLeft(Tail(s)) ELSE s

RECURSIVE TrimRight(_)
TrimRight(s) ==
    IF s # <<>> /\ s[Len(s)] = " " THEN TrimRight(SubSeq(s, 1, Len(s) - 1)) ELSE s

Trim(s) == TrimRight(TrimLeft(s))

\* _.snakeCase: the words of the string (runs of letters and digits, a run
\* also ending where a lower-case letter is followed by an upper-case one),
\* lower-cased and joined by "_"
ToLowerCase(s) == [i \in 1..Len(s) |-> ToLowerChar(s[i])]

\* the end of a word inside a run of letters and digits, between prev and
\* c, next being what follows c: lower then upper (waterSupply), a letter
\* and a digit (water2), the last capital of a run before a lower-case
\* letter (XMLHttp)
WordBreak(prev, c, next) ==
    \/ IsLower(prev) /\ IsUpper(c)
    \/ (prev \in Digits) # (c \in Digits)
    \/ IsUpper(prev) /\ IsUpper(c) /\ IsLower(next)

RECURSIVE SnakeWords(_, _, _)
SnakeWords(s, word, out) ==
    LET flush == IF word = <<>> THEN out
                 ELSE IF out = <<>> THEN ToLowerCase(word)
                 ELSE out \o <<"_">> \o ToLowerCase(word)
    IN  IF s = <<>> THEN flush
        ELSE LET c == Head(s)
                 next == IF Len(s) >= 2 THEN s[2] ELSE " "
             IN  IF ~IsAlnum(c) THEN SnakeWords(Tail(s), <<>>, flush)
                 ELSE IF word # <<>> /\ WordBreak(word[Len(word)], c, next)
                      THEN SnakeWords(Tail(s), <<c>>, flush)
                 ELSE SnakeWords(Tail(s), Append(word, c), out)

\* _.snakeCase(string): apostrophes removed, the words of the string (inputs
\* are ASCII, and have no ordinal such as 1st) lower-cased and joined by "_"
SnakeCase(s) == SnakeWords(SelectSeq(s, LAMBDA c : c # "'"), <<>>, <<>>)

(***************************************************************************)
(* Schemas                                                                 *)
(***************************************************************************)
Models == {"Indicator", "Question"}

SUBJECTS ==
    {"Population", "Geography", "Health", "Water", "Sanitation",
     "Food & Nutrition", "Shelter", "Livelihood", "Income", "Protection",
     "Education", "Basic Needs", "Transportation", "Communication", "Energy"}

\* the paths of the schema (the timestamps of SCHEMA_OPTIONS and the fields
\* no operation below reads are left out)
Paths(m) ==
    IF m = "Indicator" THEN {"_id", "base", "subject", "topic", "description", "color"}
    ELSE IF m = "Question" THEN {"_id", "indicator", "name", "label"}
    ELSE {"_id", "title", "questions"}

\* the fields of the unique index of the collection
UniqueIndexNone(m) == {}

UniqueIndex(m) ==
    IF m = "Indicator" THEN {"subject", "topic"}
    ELSE IF m = "Question" THEN {"name"}
    ELSE {}

\* randomColor({ luminosity: 'light' })
RandomColors == {<<"#", "f", "1", "e", "2", "c", "3">>, <<"#", "a", "8", "e", "6", "c", "f">>}

\* the n-th ObjectId the driver generates
Oid(n) == 100 + n

\* the setters of a path: trim on the strings, uppercase on color
Setter(m, f, v) ==
    IF m = "Indicator" /\ f = "color" THEN ToUpperCase(Trim(v))
    ELSE IF m = "Question" /\ f \in {"name", "label"} THEN Trim(v)
    ELSE v

\* document.set(values): the paths of the schema that values has
Set(m, doc, values) ==
    [f \in (DOMAIN doc) \cup ((DOMAIN values) \cap Paths(m)) |->
        IF f \in DOMAIN values THEN Setter(m, f, values[f]) ELSE doc[f]]

\* new Model(values): _id and the schema defaults, then the values
New(m, values, oid, rnd) ==
    Set(m,
        IF m = "Indicator" THEN [_id |-> oid, color |-> ToUpperCase(rnd)]
        ELSE [_id |-> oid],
        values)

\* the pre('validate') hook
IndicatorPreValidateAlways(doc, rnd) == Merge(doc, [color |-> ToUpperCase(rnd)])

IndicatorPreValidate(doc, rnd) ==
    IF IsEmpty(doc, "color") THEN Merge(doc, [color |-> ToUpperCase(rnd)]) ELSE doc

QuestionPreValidateAlways(doc) ==
    Merge(doc, [name |-> IF Has(doc, "label") THEN SnakeCase(doc.label) ELSE <<>>])

QuestionPreValidate(doc) ==
    IF IsEmpty(doc, "name")
    THEN Merge(doc, [name |-> IF Has(doc, "label") THEN SnakeCase(doc.label) ELSE <<>>])
    ELSE doc

PreValidate(m, doc, rnd) ==
    IF m = "Indicator" THEN IndicatorPreValidate(doc, rnd)
    ELSE IF m = "Question" THEN QuestionPreValidate(doc)
    ELSE doc

\* the validators of the schema: required, enum, exists
ValidNothingRequired(m, doc, inds) == TRUE

Valid(m, doc, inds) ==
    IF m = "Indicator"
    THEN /\ Has(doc, "subject") /\ doc.subject \in SUBJECTS
         /\ Has(doc, "topic") /\ doc.topic # ""
         /\ Has(doc, "base") => \E d \in inds : d._id = doc.base
    ELSE IF m = "Question"
    THEN /\ Has(doc, "indicator") /\ \E d \in inds : d._id = doc.indicator
         /\ ~IsEmpty(doc, "name")
         /\ ~IsEmpty(doc, "label")
    ELSE Has(doc, "title") /\ doc.title # ""

\* the unique indexes of a collection: _id, and the unique index of the schema
Duplicates(m, coll, doc) ==
    \E d \in coll :
        \/ d._id = doc._id
        \/ UniqueIndex(m) # {} /\ Pick(d, UniqueIndex(m)) = Pick(doc, UniqueIndex(m))

\* document.save(): validation, then an insert of a new document or an
\* update of the modified paths of a stored one; the outcome is
\* [err, doc, coll], coll being the collection after the save
Save(m, coll, inds, before, doc0, isNew, rnd) ==
    LET doc == PreValidate(m, doc0, rnd)
        modified == {f \in DOMAIN doc : ~Has(before, f) \/ before[f] # doc[f]}
        cur == {d \in coll : d._id = doc._id}
        stored == IF isNew \/ cur = {} THEN doc
                  ELSE Merge(CHOOSE d \in cur : TRUE, Pick(doc, modified))
    IN  IF ~Valid(m, doc, inds)
        THEN [err |-> "ValidationError", doc |-> Null, coll |-> coll]
        ELSE IF ~isNew /\ cur = {}
        THEN [err |-> "DocumentNotFoundError", doc |-> Null, coll |-> coll]
        ELSE IF Duplicates(m, coll \ cur, stored) \/ (isNew /\ cur # {})
        THEN [err |-> "E11000", doc |-> Null, coll |-> coll]
        ELSE [err |-> "", doc |-> doc, coll |-> (coll \ cur) \cup {stored}]

\* document.put(updates) and document.patch(updates) of mongoose-rest-actions:
\* set the updates, save
PutInstance(m, coll, inds, found, isNew, updates, rnd) ==
    Save(m, coll, inds, found, Set(m, found, updates), isNew, rnd)

(***************************************************************************)
(* Upsert and seed (lib/indicator.model.js)                                *)
(***************************************************************************)
Coll(m) ==
    IF m = "Indicator" THEN indicators
    ELSE IF m = "Question" THEN questions
    ELSE questionnaires

SetColl(m, coll) ==
    IF m = "Indicator"
    THEN indicators' = coll /\ UNCHANGED <<questions, questionnaires>>
    ELSE IF m = "Question"
    THEN questions' = coll /\ UNCHANGED <<indicators, questionnaires>>
    ELSE questionnaires' = coll /\ UNCHANGED <<indicators, questions>>

\* prepareSeedCriteria of the indicators, and the criteria of
\* findExistingIndicator: by _id, or by subject and topic
IndicatorSeedCriteriaNoId(seed) == Pick(seed, {"subject", "topic"})

IndicatorSeedCriteriaIdOnly(seed) == Pick(seed, {"_id"})

IndicatorSeedCriteria(seed) ==
    IF Has(seed, "_id") THEN Pick(seed, {"_id"}) ELSE Pick(seed, {"subject", "topic"})

\* prepareSeedCriteria of the questions: by _id, or by name
QuestionSeedCriteria(seed) ==
    IF Has(seed, "_id") THEN Pick(seed, {"_id"}) ELSE Pick(seed, {"name"})

PrepareSeedCriteria(m, seed) ==
    IF m = "Indicator" THEN IndicatorSeedCriteria(seed) ELSE QuestionSeedCriteria(seed)

\* a document matches the criteria when it has every field of it
Matches(doc, criteria) ==
    \A f \in DOMAIN criteria : Has(doc, f) /\ doc[f] = criteria[f]

\* Model.findOne(criteria): a matching document, null when there is none
FindOne(coll, criteria) ==
    IF \E d \in coll : Matches(d, criteria)
    THEN {d \in coll : Matches(d, criteria)}
    ELSE {Null}

\* _.compact(seeds)
RECURSIVE Compact(_)
Compact(list) ==
    IF list = <<>> THEN <<>>
    ELSE IF IsNull(Head(list)) THEN Compact(Tail(list))
    ELSE <<Head(list)>> \o Compact(Tail(list))

\* what seed would keep if it compared the seeds by their upsert criteria:
\* the first of every class of seeds with the same criteria
RECURSIVE UniqByCriteria(_, _)
UniqByCriteria(list, kept) ==
    IF list = <<>> THEN kept
    ELSE IF \E i \in 1..Len(kept) :
                PrepareSeedCriteria(seedModel, kept[i])
                    = PrepareSeedCriteria(seedModel, Head(list))
    THEN UniqByCriteria(Tail(list), kept)
    ELSE UniqByCriteria(Tail(list), Append(kept, Head(list)))

\* _.uniqWith(seeds, _.isEqual): the first of every class of equal seeds
RECURSIVE UniqWith(_, _)
UniqWith(list, kept) ==
    IF list = <<>> THEN kept
    ELSE IF \E i \in 1..Len(kept) : kept[i] = Head(list)
    THEN UniqWith(Tail(list), kept)
    ELSE UniqWith(Tail(list), Append(kept, Head(list)))

\* once(callback) of async.parallel
OnceAgain(c, err, results) ==
    [count |-> c.count + 1, err |-> err, results |-> results]

Once(c, err, results) ==
    IF c.count = 0 THEN [count |-> 1, err |-> err, results |-> results] ELSE c

NoCallback == [count |-> 0, err |-> "", results |-> <<>>]

Idle == \A i \in 1..Len(tasks) : tasks[i].pc = "done"

\* seed(seeds, done): compact, uniqWith, one upsert per seed, parallel
Seed(m, list) ==
    LET batch == UniqWith(Compact(list), <<>>)
    IN  /\ tasks' = [i \in 1..Len(batch) |->
                        [cand |-> batch[i], pc |-> "find", criteria |-> Null,
                         found |-> Null, res |-> Null, err |-> "", late |-> FALSE]]
        /\ completed' = 0
        /\ cb' = IF batch = <<>> THEN Once(NoCallback, "", <<>>) ELSE NoCallback
        /\ firstErr' = ""
        /\ store0' = Coll(m)
        /\ seeds' = list
        /\ count1' = IF runs = 1 THEN Cardinality(Coll(m)) ELSE count1
        /\ runs' = runs + 1
        /\ work' = work + (IF batch = <<>> THEN 1 ELSE Len(batch))
        /\ seedModel' = m
        /\ UNCHANGED <<indicators, questions, questionnaires, nextOid, last>>

\* waterfall step 1 of upsert: findExistingIndicator
FindExisting(i) ==
    /\ tasks[i].pc = "find"
    /\ LET criteria == PrepareSeedCriteria(seedModel, tasks[i].cand)
       IN  \E found \in FindOne(Coll(seedModel), criteria) :
               tasks' = [tasks EXCEPT ![i].pc = "upsert",
                                      ![i].criteria = criteria,
                                      ![i].found = found]
    /\ UNCHANGED <<indicators, questions, questionnaires, nextOid, seedModel, completed, cb,
                   firstErr, store0, runs, seeds, count1, work, last, app>>

\* the updates of upsertIndicator: _.merge({}, _indicator, found.toObject())
PrepareUpdatesSeedWins(seed, found) == Merge(found, seed)

PrepareUpdates(seed, found) == Merge(seed, found)

\* what parallel would report if it pushed each result as its task
\* completed: the result of the task that completes last comes last
ResultsPushed(i, doc) ==
    [j \in 1..Len(tasks) |->
        IF j = Len(tasks) THEN doc
        ELSE IF j < i THEN tasks[j].res
        ELSE tasks[j + 1].res]

\* the results of parallel(indicators, _done) when the task i completes
\* last with doc: the result of every task at the position of the task
Results(i, doc) ==
    [j \in 1..Len(tasks) |-> IF j = i THEN doc ELSE tasks[j].res]

\* waterfall step 2 of upsert: upsertIndicator, and the callback of the
\* task into async.parallel; failFast and rollBack are what a seed that
\* cancelled the other upserts at, or undid its writes after, the first
\* error would do
UpsertStep(i, failFast, rollBack) ==
    /\ tasks[i].pc = "upsert"
    /\ \E rnd \in RandomColors :
        LET m == seedModel
            cand == tasks[i].cand
            isNew == IsNull(tasks[i].found)
            found == IF isNew THEN New(m, cand, Oid(nextOid + 1), rnd)
                     ELSE tasks[i].found
            updates == PrepareUpdates(cand, found)
        IN  \E out \in {IF failFast /\ firstErr # ""
                        THEN [err |-> "Cancelled", doc |-> Null, coll |-> Coll(m)]
                        ELSE PutInstance(m, Coll(m), indicators, found, isNew,
                                         updates, rnd)} :
            /\ SetColl(m, IF rollBack /\ out.err # "" THEN store0 ELSE out.coll)
            /\ nextOid' = IF isNew /\ ~Has(cand, "_id") THEN nextOid + 1 ELSE nextOid
            /\ tasks' = [tasks EXCEPT ![i].pc = "done",
                                      ![i].res = out.doc,
                                      ![i].err = out.err,
                                      ![i].late = (out.err = "" /\ firstErr # "")]
            /\ firstErr' = IF firstErr = "" THEN out.err ELSE firstErr
            /\ completed' = IF out.err = "" THEN completed + 1 ELSE completed
            /\ cb' = IF out.err # "" THEN Once(cb, out.err, <<>>)
                     ELSE IF completed + 1 = Len(tasks)
                     THEN Once(cb, "", Results(i, out.doc))
                     ELSE cb
    /\ UNCHANGED <<seedModel, store0, runs, seeds, count1, work, last, app>>

UpsertWriteFailFast(i) == UpsertStep(i, TRUE, FALSE)

UpsertWriteRollBack(i) == UpsertStep(i, FALSE, TRUE)

\* a task of parallel(indicators, _done): nothing stops it, nothing undoes it
UpsertWrite(i) == UpsertStep(i, FALSE, FALSE)

(***************************************************************************)
(* REST operations of a model (mongoose-rest-actions): each is one         *)
(* request, answered in one step                                           *)
(***************************************************************************)
\* the callback of a handler: if (error) next(error), else response.status
\* and response.json; err is what next received, status 0 is no response
RespondAlways(op, m, id, body, err, doc) ==
    [op |-> op, model |-> m, id |-> id, body |-> body, err |-> err,
     status |-> IF op = "post" THEN 201 ELSE 200, json |-> doc]

Respond(op, m, id, body, err, doc) ==
    [op |-> op, model |-> m, id |-> id, body |-> body, err |-> err,
     status |-> IF err # "" THEN 0 ELSE IF op = "post" THEN 201 ELSE 200,
     json |-> IF err # "" THEN Null ELSE doc]

\* the reference paths of a schema that are populated on a read
RefPaths(m) ==
    IF m = "Indicator" THEN {"base"}
    ELSE IF m = "Question" THEN {"indicator"}
    ELSE {}

\* OPTION_AUTOPOPULATE: select (and _id, which a projection keeps), maxDepth
AutopopulateSelectAll == Paths("Indicator")

AutopopulateSelect == {"_id", "subject", "topic", "color"}

POPULATION_MAX_DEPTH == 1

\* autopopulate of a document read at a depth: below maxDepth every reference
\* path is replaced by the selected fields of the indicator it names, read
\* one level deeper, and by null when there is none
RECURSIVE Populate(_, _, _)
Populate(m, doc, depth) ==
    [f \in DOMAIN doc |->
        IF f \in RefPaths(m) /\ depth < POPULATION_MAX_DEPTH
        THEN LET refs == {r \in indicators : r._id = doc[f]}
             IN  IF refs = {} THEN Null
                 ELSE Populate("Indicator",
                               Pick(CHOOSE r \in refs : TRUE, AutopopulateSelect),
                               depth + 1)
        ELSE doc[f]]

\* the steps a request has outside the collections
Requested ==
    /\ work' = work + 1
    /\ UNCHANGED <<nextOid, seedModel, tasks, completed, cb, firstErr, store0,
                   runs, seeds, count1, app>>

\* GET /:resource: Model.get(options)
GetList(m) ==
    /\ work < MaxWork
    /\ last' = Respond("list", m, 0, Null, "",
                       [total |-> Cardinality(Coll(m)),
                        data |-> {Populate(m, d, 0) : d \in Coll(m)}])
    /\ UNCHANGED <<indicators, questions, questionnaires>>
    /\ Requested

\* GET /:resource/:id: Model.getById(options); orNull is a read that answers
\* an unknown id with no document instead of an error
GetStep(m, id, orNull) ==
    /\ work < MaxWork
    /\ LET found == {d \in Coll(m) : d._id = id}
       IN  last' = IF found = {}
                   THEN Respond("get", m, id, Null,
                                IF orNull THEN "" ELSE "NotFound", Null)
                   ELSE Respond("get", m, id, Null, "",
                                Populate(m, CHOOSE d \in found : TRUE, 0))
    /\ UNCHANGED <<indicators, questions, questionnaires>>
    /\ Requested

GetByIdOrNull(m, id) == GetStep(m, id, TRUE)

GetById(m, id) == GetStep(m, id, FALSE)

\* DELETE /:resource/:id: Model.del(id); cascade is a delete that also
\* removes the questions of a deleted indicator
DeleteStep(m, id, cascade) ==
    /\ work < MaxWork
    /\ LET found == {d \in Coll(m) : d._id = id}
       IN  /\ last' = IF found = {} THEN Respond("delete", m, id, Null, "NotFound", Null)
                      ELSE Respond("delete", m, id, Null, "", CHOOSE d \in found : TRUE)
           /\ IF cascade /\ m = "Indicator"
              THEN /\ indicators' = indicators \ found
                   /\ questions' = {q \in questions : q.indicator # id}
                   /\ UNCHANGED questionnaires
              ELSE SetColl(m, Coll(m) \ found)
    /\ Requested

DeleteCascade(m, id) == DeleteStep(m, id, TRUE)

Delete(m, id) == DeleteStep(m, id, FALSE)

\* Model.post(body, done): new Model(body), save
Post(m, body) ==
    /\ work < MaxWork
    /\ \E rnd \in RandomColors :
        LET doc == New(m, body, Oid(nextOid + 1), rnd)
        IN  \E out \in {Save(m, Coll(m), indicators, doc, doc, TRUE, rnd)} :
            /\ SetColl(m, out.coll)
            /\ last' = Respond("post", m, 0, body, out.err, out.doc)
    /\ nextOid' = nextOid + 1
    /\ work' = work + 1
    /\ UNCHANGED <<seedModel, tasks, completed, cb, firstErr, store0, runs,
                   seeds, count1, app>>

\* Model.patch(id, body, done) and Model.put(id, body, done): findById,
\* document.patch(body) or document.put(body)
Update(op, m, id, body) ==
    /\ work < MaxWork
    /\ \E rnd \in RandomColors :
        LET found == FindOne(Coll(m), [_id |-> id])
            doc == CHOOSE d \in found : TRUE
        IN  \E out \in {IF found = {Null}
                        THEN [err |-> "NotFound", doc |-> Null, coll |-> Coll(m)]
                        ELSE PutInstance(m, Coll(m), indicators, doc, FALSE, body, rnd)} :
            /\ SetColl(m, out.coll)
            /\ last' = Respond("update", m, id, body, out.err, out.doc)
    /\ work' = work + 1
    /\ UNCHANGED <<nextOid, seedModel, tasks, completed, cb, firstErr, store0,
                   runs, seeds, count1, app>>

Patch(m, id, body) == Update("patch", m, id, body)

Put(m, id, body) == Update("put", m, id, body)

(***************************************************************************)
(* The inputs                                                              *)
(***************************************************************************)
WaterSupplyLabel == <<"W", "a", "t", "e", "r", " ", "S", "u", "p", "p", "l", "y", "?">>
WaterSupplyName == <<"w", "a", "t", "e", "r", "_", "s", "u", "p", "p", "l", "y">>
FoodLabel == <<"F", "o", "o", "d">>
FoodName == <<"f", "o", "o", "d">>

\* a stored indicator: what the collection may hold before a run
StoredIndicator ==
    [_id |-> 1, subject |-> "Water", topic |-> "Supply", color |-> <<"#", "A", "A">>]

InitialIndicators == {{}, {StoredIndicator}}

IndicatorSeeds ==
    << [subject |-> "Water", topic |-> "Supply", description |-> "d1"],
       [subject |-> "Water", topic |-> "Supply", description |-> "d2"],
       [subject |-> "Health", topic |-> "Supply", color |-> <<"#", "b", "b">>],
       [_id |-> 1, subject |-> "Water", topic |-> "Supply"],
       [_id |-> 1, subject |-> "Health", topic |-> "Supply", description |-> "d2"],
       [subject |-> "Health"] >>

QuestionSeeds ==
    << [indicator |-> 1, label |-> WaterSupplyLabel],
       [indicator |-> 1, name |-> WaterSupplyName, label |-> FoodLabel],
       [indicator |-> 1, name |-> FoodName, label |-> FoodLabel],
       [_id |-> 2, indicator |-> 1, name |-> FoodName, label |-> WaterSupplyLabel] >>

\* what a seed list may hold: null, and the seeds of the model
SeedsOf(m) == <<Null>> \o (IF m = "Indicator" THEN IndicatorSeeds ELSE QuestionSeeds)

\* the lists of at most MaxSeeds entries of SeedsOf(m), equal entries
\* included, in the order of SeedsOf(m)
SeedLists(m) ==
    LET k == Len(SeedsOf(m))
        sorted(n) == {ix \in [1..n -> 1..k] : \A i \in 1..(n - 1) : ix[i] <= ix[i + 1]}
    IN  UNION {{[i \in 1..n |-> SeedsOf(m)[ix[i]]] : ix \in sorted(n)} : n \in 0..MaxSeeds}

BodiesOf(m) ==
    IF m = "Indicator"
    THEN { [subject |-> "Water", topic |-> "Supply"],
           [subject |-> "Health", topic |-> "Supply", description |-> "d1"],
           [subject |-> "Weather", topic |-> "Supply"] }
    ELSE { [indicator |-> 1, label |-> WaterSupplyLabel],
           [indicator |-> 1, name |-> WaterSupplyName, label |-> FoodLabel],
           [name |-> FoodName] }

PatchesOf(m) ==
    IF m = "Indicator"
    THEN { [description |-> "edited"], [subject |-> "Health"] }
    ELSE { [name |-> WaterSupplyName], [label |-> FoodLabel] }

\* the identifiers a request may name: those stored, and one that is not
IdsOf(m) == {d._id : d \in Coll(m)} \cup {2}

(***************************************************************************)
(* Specifications                                                          *)
(***************************************************************************)
\* no hosting process: the requests and seeds are issued directly; begun and
\* seeded are the seeds a hosting process has called, and those that have
\* called back with no error, in that order
NoApp ==
    [script |-> "none", pc |-> "none", connected |-> TRUE, error |-> "",
     thrown |-> FALSE, root |-> FALSE, mounted |-> FALSE, started |-> FALSE,
     begun |-> <<>>, seeded |-> <<>>]

Init ==
    /\ indicators \in InitialIndicators
    /\ questions = {}
    /\ questionnaires = {}
    /\ nextOid = 0
    /\ seedModel \in Models
    /\ tasks = <<>>
    /\ completed = 0
    /\ cb = NoCallback
    /\ firstErr = ""
    /\ store0 = {}
    /\ runs = 0
    /\ seeds = <<>>
    /\ count1 = 0
    /\ work = 0
    /\ last = [op |-> "none", model |-> "none", id |-> 0, body |-> Null,
               err |-> ""]
    /\ app = NoApp

\* a seed call of a run of requests and seeds; the callers wait for the
\* tasks of the previous call
SeedStart(m) ==
    /\ work < MaxWork
    /\ Idle
    /\ \E list \in SeedLists(m) :
        /\ Len(list) <= MaxWork - work
        /\ Seed(m, list)
    /\ UNCHANGED app

\* the requests and seeds of a model, in any order and interleaving
Next ==
    \/ SeedStart(seedModel)
    \/ \E i \in 1..Len(tasks) : FindExisting(i)
    \/ \E i \in 1..Len(tasks) : UpsertWrite(i)
    \/ \E body \in BodiesOf(seedModel) : Post(seedModel, body)
    \/ \E id \in IdsOf(seedModel) : \E body \in PatchesOf(seedModel) :
           Patch(seedModel, id, body)
    \/ \E id \in IdsOf(seedModel) : \E body \in PatchesOf(seedModel) :
           Put(seedModel, id, body)

Spec == Init /\ [][Next]_vars

\* the first seed call
SeedFirst ==
    /\ runs = 0
    /\ \E list \in SeedLists(seedModel) : Seed(seedModel, list)
    /\ UNCHANGED app

\* the same seeds seeded again, when the first call has finished
SeedAgain ==
    /\ runs = 1
    /\ Idle
    /\ Seed(seedModel, seeds)
    /\ UNCHANGED app

\* the seeds of a model seeded once, then once more, nothing else running
NextSeed ==
    \/ SeedFirst
    \/ SeedAgain
    \/ \E i \in 1..Len(tasks) : FindExisting(i)
    \/ \E i \in 1..Len(tasks) : UpsertWrite(i)

SpecSeed == Init /\ [][NextSeed]_vars

(***************************************************************************)
(* Validation: documents of every shape of color, name and label, created  *)
(* and updated                                                             *)
(***************************************************************************)
CamelLabel == <<"w", "a", "t", "e", "r", "S", "u", "p", "p", "l", "y">>
PaddedLabel == <<" ", "F", "o", "o", "d", " ">>
MixedLabel == <<"F", "o", "o", "d", "'", "s", " ", "2", "K", "G">>
MixedName == <<"f", "o", "o", "d", "s", "_", "2", "_", "k", "g">>
GivenName == <<"M", "y", " ", "N", "a", "m", "e">>

Labels == {WaterSupplyLabel, FoodLabel, CamelLabel, PaddedLabel, MixedLabel, <<"?">>, <<>>}

Names == {<<>>, <<" ">>, FoodName, GivenName}

Colors == {<<>>, <<" ">>, <<"r", "e", "d", " ">>, <<"#", "b", "b">>, <<" ", "#", "C", "c">>}

\* the bodies of the requests that create a document
ValidateBodiesOf(m) ==
    IF m = "Indicator"
    THEN LET keys == {[subject |-> "Water", topic |-> "Supply"],
                      [subject |-> "Health", topic |-> "Supply"]}
         IN  keys \cup {Merge(k, [color |-> c]) : k \in keys, c \in Colors}
    ELSE LET base == {[indicator |-> 1]}
             labelled == base \cup {Merge(b, [label |-> l]) : b \in base, l \in Labels}
         IN  labelled \cup {Merge(b, [name |-> n]) : b \in labelled, n \in Names}

\* the bodies of the requests that update a document
ValidatePatchesOf(m) ==
    IF m = "Indicator"
    THEN {[description |-> "edited"], [color |-> <<" ">>], [color |-> <<"#", "d", "d">>]}
    ELSE {[label |-> FoodLabel], [name |-> <<>>], [name |-> GivenName]}

\* documents created and updated by requests, each validated and saved
NextValidate ==
    \/ \E body \in ValidateBodiesOf(seedModel) : Post(seedModel, body)
    \/ \E id \in IdsOf(seedModel) : \E body \in ValidatePatchesOf(seedModel) :
           Patch(seedModel, id, body)
    \/ \E id \in IdsOf(seedModel) : \E body \in ValidatePatchesOf(seedModel) :
           Put(seedModel, id, body)

SpecValidate == Init /\ [][NextValidate]_vars

(***************************************************************************)
(* The REST handlers of the three resources, on stores whose documents     *)
(* refer to each other                                                     *)
(***************************************************************************)
Resources == Models \cup {"Questionnaire"}

\* indicators whose base is the indicator itself, whose bases form a cycle
\* of two, and whose bases form a chain of three
RestIndicators ==
    LET a == [_id |-> 1, subject |-> "Water", topic |-> "Supply", color |-> <<"#", "A", "A">>]
        b == [_id |-> 2, subject |-> "Health", topic |-> "Supply", color |-> <<"#", "B", "B">>]
        c == [_id |-> 3, subject |-> "Energy", topic |-> "Supply", color |-> <<"#", "C", "C">>]
    IN  { {Merge(a, [base |-> 1])},
          {Merge(a, [base |-> 2]), Merge(b, [base |-> 1])},
          {Merge(a, [base |-> 2]), Merge(b, [base |-> 3]), c} }

RestQuestions == {[_id |-> 10, indicator |-> 1, name |-> FoodName, label |-> FoodLabel]}

RestQuestionnaires == {[_id |-> 20, title |-> "Needs", questions |-> <<10>>]}

RestBodiesOf(m) ==
    IF m = "Indicator"
    THEN {[subject |-> "Water", topic |-> "Supply"],
          [subject |-> "Shelter", topic |-> "Supply", base |-> 1]}
    ELSE IF m = "Question"
    THEN {[indicator |-> 1, label |-> WaterSupplyLabel], [label |-> FoodLabel]}
    ELSE {[title |-> "Damage", questions |-> <<10>>], [questions |-> <<10>>]}

RestPatchesOf(m) ==
    IF m = "Indicator" THEN {[base |-> 1], [base |-> 2], [base |-> 99]}
    ELSE IF m = "Question" THEN {[indicator |-> 2], [label |-> WaterSupplyLabel]}
    ELSE {[title |-> "Edited"]}

\* the identifiers a request may name: those stored, and one that is not
RestIdsOf(m) == {d._id : d \in Coll(m)} \cup {99}

InitRest ==
    /\ indicators \in RestIndicators
    /\ questions = RestQuestions
    /\ questionnaires = RestQuestionnaires
    /\ nextOid = 0
    /\ seedModel \in Resources
    /\ tasks = <<>>
    /\ completed = 0
    /\ cb = NoCallback
    /\ firstErr = ""
    /\ store0 = {}
    /\ runs = 0
    /\ seeds = <<>>
    /\ count1 = 0
    /\ work = 0
    /\ last = [op |-> "none", model |-> "none", id |-> 0, body |-> Null,
               err |-> ""]
    /\ app = NoApp

\* the requests to a resource, in any order
NextRest ==
    \/ GetList(seedModel)
    \/ \E id \in RestIdsOf(seedModel) : GetById(seedModel, id)
    \/ \E body \in RestBodiesOf(seedModel) : Post(seedModel, body)
    \/ \E id \in RestIdsOf(seedModel) : \E body \in RestPatchesOf(seedModel) :
           Patch(seedModel, id, body)
    \/ \E id \in RestIdsOf(seedModel) : \E body \in RestPatchesOf(seedModel) :
           Put(seedModel, id, body)
    \/ \E id \in RestIdsOf(seedModel) : Delete(seedModel, id)

SpecRest == InitRest /\ [][NextRest]_vars

(***************************************************************************)
(* The router of the questionnaires: a request is handled by the first     *)
(* route, in the order of registration, of its method that its path        *)
(* matches                                                                 *)
(***************************************************************************)
\* paths as their segments; a path that ends with "/" has a last segment ""
PATH_LIST == <<"questionnaires">>
PATH_SINGLE == <<"questionnaires", ":id">>
PATH_SCHEMA == <<"questionnaires", "schema", "">>

\* the routes if the route of a single questionnaire were registered before
\* the route of the schema
RoutesSingleFirst ==
    << [method |-> "GET", path |-> PATH_LIST, handler |-> "getQuestionnaires"],
       [method |-> "GET", path |-> PATH_SINGLE, handler |-> "getQuestionnaire"],
       [method |-> "GET", path |-> PATH_SCHEMA, handler |-> "getQuestionnaireSchema"],
       [method |-> "POST", path |-> PATH_LIST, handler |-> "postQuestionnaire"],
       [method |-> "PATCH", path |-> PATH_SINGLE, handler |-> "patchQuestionnaire"],
       [method |-> "PUT", path |-> PATH_SINGLE, handler |-> "putQuestionnaire"],
       [method |-> "DELETE", path |-> PATH_SINGLE, handler |-> "deleteQuestionnaire"] >>

\* the routes of the router, in the order of their registration
Routes ==
    << [method |-> "GET", path |-> PATH_LIST, handler |-> "getQuestionnaires"],
       [method |-> "GET", path |-> PATH_SCHEMA, handler |-> "getQuestionnaireSchema"],
       [method |-> "POST", path |-> PATH_LIST, handler |-> "postQuestionnaire"],
       [method |-> "GET", path |-> PATH_SINGLE, handler |-> "getQuestionnaire"],
       [method |-> "PATCH", path |-> PATH_SINGLE, handler |-> "patchQuestionnaire"],
       [method |-> "PUT", path |-> PATH_SINGLE, handler |-> "putQuestionnaire"],
       [method |-> "DELETE", path |-> PATH_SINGLE, handler |-> "deleteQuestionnaire"] >>

\* routing is not strict: a "/" at the end of a path is optional
NoTrailing(path) ==
    IF path # <<>> /\ path[Len(path)] = ""
    THEN SubSeq(path, 1, Len(path) - 1)
    ELSE path

\* a path matches the path of a route segment by segment, a parameter
\* matching any segment that is not empty
MatchPath(pattern, path) ==
    LET p == NoTrailing(pattern)
        u == NoTrailing(path)
    IN  /\ Len(p) = Len(u)
        /\ \A k \in 1..Len(p) : (p[k] = ":id" /\ u[k] # "") \/ p[k] = u[k]

\* the first route that matches the request, 0 when none does
Dispatch(method, path) ==
    LET hits == {k \in 1..Len(Routes) :
                    Routes[k].method = method /\ MatchPath(Routes[k].path, path)}
    IN  IF hits = {} THEN 0 ELSE CHOOSE k \in hits : \A h \in hits : k <= h

Handler(method, path) ==
    IF Dispatch(method, path) = 0 THEN "none"
    ELSE Routes[Dispatch(method, path)].handler

\* the segments that are identifiers, and the identifier each is
IdSegments == ("20" :> 20) @@ ("99" :> 99)

\* request.params.id of a request matched by PATH_SINGLE
ParamId(path) == NoTrailing(path)[2]

\* getQuestionnaireSchema: Questionnaire.jsonSchema(), status 200, json
GetSchema(m) ==
    /\ work < MaxWork
    /\ last' = [op |-> "schema", model |-> m, id |-> 0, body |-> Null, err |-> "",
                status |-> 200,
                json |-> [title |-> m, properties |-> Paths(m)]]
    /\ UNCHANGED <<indicators, questions, questionnaires>>
    /\ Requested

\* a handler of PATH_SINGLE whose id is not an identifier: the model reports
\* the error of the cast, and the handler forwards it
CastFailed(op, m) ==
    /\ work < MaxWork
    /\ last' = Respond(op, m, 0, Null, "CastError", Null)
    /\ UNCHANGED <<indicators, questions, questionnaires>>
    /\ Requested

\* a request that no route matches
Unrouted ==
    /\ work < MaxWork
    /\ last' = Respond("none", "none", 0, Null, "NotFound", Null)
    /\ UNCHANGED <<indicators, questions, questionnaires>>
    /\ Requested

\* a request to the router: the handler of the first matching route runs
Request(method, path, body) ==
    LET m == "Questionnaire"
        handler == Handler(method, path)
        cast == handler \in {"getQuestionnaire", "patchQuestionnaire",
                              "putQuestionnaire", "deleteQuestionnaire"}
                  /\ ParamId(path) \in DOMAIN IdSegments
        id == IF cast THEN IdSegments[ParamId(path)] ELSE 0
    IN  \/ handler = "none" /\ Unrouted
        \/ handler = "getQuestionnaires" /\ GetList(m)
        \/ handler = "getQuestionnaireSchema" /\ GetSchema(m)
        \/ handler = "postQuestionnaire" /\ Post(m, body)
        \/ handler = "getQuestionnaire" /\ cast /\ GetById(m, id)
        \/ handler = "getQuestionnaire" /\ ~cast /\ CastFailed("get", m)
        \/ handler = "patchQuestionnaire" /\ cast /\ Patch(m, id, body)
        \/ handler = "putQuestionnaire" /\ cast /\ Put(m, id, body)
        \/ handler = "deleteQuestionnaire" /\ cast /\ Delete(m, id)
        \/ /\ handler \in {"patchQuestionnaire", "putQuestionnaire",
                            "deleteQuestionnaire"}
           /\ ~cast
           /\ CastFailed(IF handler = "deleteQuestionnaire" THEN "delete" ELSE "update", m)

Methods == {"GET", "POST", "PATCH", "PUT", "DELETE"}

\* the paths of the requests: the list, the schema, a stored and an unknown
\* questionnaire, with and without "/" at the end, a segment that is no
\* identifier, and two paths of no route
RequestPaths ==
    { <<"questionnaires">>, <<"questionnaires", "">>,
      <<"questionnaires", "schema">>, <<"questionnaires", "schema", "">>,
      <<"questionnaires", "20">>, <<"questionnaires", "20", "">>,
      <<"questionnaires", "99">>, <<"questionnaires", "abc">>,
      <<"questions">>, <<"questionnaires", "schema", "20">> }

RouteBodiesOf(method) ==
    IF method = "POST" THEN RestBodiesOf("Questionnaire")
    ELSE IF method \in {"PATCH", "PUT"} THEN RestPatchesOf("Questionnaire")
    ELSE {Null}

InitRoute ==
    /\ InitRest
    /\ seedModel = "Questionnaire"

NextRoute ==
    \E method \in Methods : \E path \in RequestPaths :
        \E body \in RouteBodiesOf(method) : Request(method, path, body)

SpecRoute == InitRoute /\ [][NextRoute]_vars

(***************************************************************************)
(* The hosting processes: examples/app.js, and the seed example            *)
(***************************************************************************)
Scripts == {"app", "seed"}

ConnectErrors == {"", "MongoNetworkError"}

\* the waterfall's final callback is called with an error of a step
Fail(err) == [app EXCEPT !.pc = "callback", !.error = err]

\* throw in a callback: the process ends
Throw(err) == [app EXCEPT !.pc = "exit", !.error = err, !.thrown = TRUE]

\* connect(error => ...): app.js re-throws the error, the seed example has
\* no look at it and goes on to its waterfall
Connect(err) ==
    /\ app.pc = "connect"
    /\ app' = IF app.script = "app"
              THEN IF err # "" THEN Throw(err)
                   ELSE [app EXCEPT !.pc = "seedIndicators"]
              ELSE [app EXCEPT !.pc = "clearQuestionnaires",
                               !.connected = (err = ""),
                               !.error = err]
    /\ UNCHANGED <<indicators, questions, questionnaires, nextOid, seedModel, tasks, completed,
                   cb, firstErr, store0, runs, seeds, count1, work, last>>

\* clearQuestionnaires, clearQuestions, clearIndicators of the seed example:
\* deleteMany(() => next()), whatever its outcome
Clear ==
    /\ app.pc \in {"clearQuestionnaires", "clearQuestions", "clearIndicators"}
    /\ app' = [app EXCEPT !.pc = IF app.pc = "clearQuestionnaires" THEN "clearQuestions"
                                 ELSE IF app.pc = "clearQuestions" THEN "clearIndicators"
                                 ELSE "seedIndicators"]
    /\ questionnaires' = IF app.pc = "clearQuestionnaires" /\ app.connected THEN {}
                         ELSE questionnaires
    /\ questions' = IF app.pc = "clearQuestions" /\ app.connected THEN {} ELSE questions
    /\ indicators' = IF app.pc = "clearIndicators" /\ app.connected THEN {} ELSE indicators
    /\ UNCHANGED <<nextOid, seedModel, tasks, completed, cb, firstErr, store0,
                   runs, seeds, count1, work, last>>

\* the questions the seed example seeds: one per seeded indicator, which it
\* refers to
QuestionsOf(list, results) ==
    [i \in 1..Len(list) |-> Merge(list[i], [indicator |-> results[i]._id])]

\* seedIndicators and seedQuestions: Indicator.seed, Question.seed
SeedModel(m) ==
    /\ app.pc = (IF m = "Indicator" THEN "seedIndicators" ELSE "seedQuestions")
    /\ app.connected
    /\ \E list \in SeedLists(m) :
        /\ Len(list) <= MaxWork
        /\ IF app.script = "seed" /\ m = "Question"
           THEN /\ Len(list) = Len(cb.results)
                /\ \A i \in 1..Len(list) : ~IsNull(list[i])
                /\ Seed(m, QuestionsOf(list, cb.results))
           ELSE Seed(m, list)
    /\ app' = [app EXCEPT !.pc = "seeding", !.begun = Append(@, m)]

\* a seed on a store that was never connected reports the error of the
\* connection
SeedDisconnected ==
    /\ app.pc = "seedIndicators"
    /\ ~app.connected
    /\ app' = [Fail(app.error) EXCEPT !.begun = Append(@, "Indicator")]
    /\ UNCHANGED <<indicators, questions, questionnaires, nextOid, seedModel, tasks, completed,
                   cb, firstErr, store0, runs, seeds, count1, work, last>>

\* the callback of a seed: next(error) of the waterfall
Seeded ==
    /\ app.pc = "seeding"
    /\ cb.count = 1
    /\ app' = IF cb.err # "" THEN Fail(cb.err)
              ELSE [app EXCEPT !.pc = IF seedModel = "Indicator" THEN "seedQuestions"
                                       ELSE "seedQuestionnaires",
                               !.seeded = Append(@, seedModel)]
    /\ UNCHANGED <<indicators, questions, questionnaires, nextOid, seedModel, tasks, completed,
                   cb, firstErr, store0, runs, seeds, count1, work, last>>

\* seedQuestionnaires: Questionnaire.seed, which succeeds or reports an error
SeedQuestionnaires(err) ==
    /\ app.pc = "seedQuestionnaires"
    /\ app' = [Fail(err) EXCEPT !.begun = Append(@, "Questionnaire"),
                                !.seeded = IF err = "" THEN Append(@, "Questionnaire")
                                           ELSE @]
    /\ UNCHANGED <<indicators, questions, questionnaires, nextOid, seedModel, tasks, completed,
                   cb, firstErr, store0, runs, seeds, count1, work, last>>

\* the final callback of the waterfall: app.js re-throws an error, and else
\* adds the route of the module info, mounts the routers and starts; the
\* seed example adds the route and starts
Callback ==
    /\ app.pc = "callback"
    /\ app' = IF app.script = "app"
              THEN IF app.error # "" THEN Throw(app.error)
                   ELSE [app EXCEPT !.pc = "serving", !.root = TRUE,
                                    !.mounted = TRUE, !.started = TRUE]
              ELSE [app EXCEPT !.pc = "serving", !.root = TRUE, !.started = TRUE]
    /\ UNCHANGED <<indicators, questions, questionnaires, nextOid, seedModel, tasks, completed,
                   cb, firstErr, store0, runs, seeds, count1, work, last>>

InitApp ==
    /\ indicators \in InitialIndicators
    /\ questions = {}
    /\ questionnaires = {}
    /\ nextOid = 0
    /\ seedModel = "Indicator"
    /\ tasks = <<>>
    /\ completed = 0
    /\ cb = NoCallback
    /\ firstErr = ""
    /\ store0 = {}
    /\ runs = 0
    /\ seeds = <<>>
    /\ count1 = 0
    /\ work = 0
    /\ last = [op |-> "none", model |-> "none", id |-> 0, body |-> Null,
               err |-> ""]
    /\ \E script \in Scripts : app = [NoApp EXCEPT !.script = script, !.pc = "connect"]

\* the start of a hosting process; the upserts of its seeds run while the
\* process does
NextApp ==
    \/ \E err \in ConnectErrors : Connect(err)
    \/ Clear
    \/ \E m \in Models : SeedModel(m)
    \/ SeedDisconnected
    \/ ~app.thrown /\ \E i \in 1..Len(tasks) : FindExisting(i)
    \/ ~app.thrown /\ \E i \in 1..Len(tasks) : UpsertWrite(i)
    \/ Seeded
    \/ \E err \in {"", "ValidationError"} : SeedQuestionnaires(err)
    \/ Callback

SpecApp == InitApp /\ [][NextApp]_vars

(***************************************************************************)
(* The claims                                                              *)
(***************************************************************************)
Done(i) == tasks[i].pc = "done"

Succeeded(i) == Done(i) /\ tasks[i].err = ""

StoredAs(doc) == {d \in Coll(seedModel) : d._id = doc._id}

C2_SeedFieldsOverride ==
    \A i \in 1..Len(tasks) :
        (Succeeded(i) /\ ~IsNull(tasks[i].found)) =>
            \A f \in (DOMAIN tasks[i].cand) \cap Paths(seedModel) :
                tasks[i].res[f] = Setter(seedModel, f, tasks[i].cand[f])

\* C2 amended: when the lookup of an upsert found a stored document, every
\* field that document has keeps its stored value in the persisted result,
\* and the seed supplies only the fields the stored document lacks; a field
\* edited between two seedings keeps the edited value.
C2_StoredFieldsWin ==
    \A i \in 1..Len(tasks) :
        (Succeeded(i) /\ ~IsNull(tasks[i].found)) =>
            /\ \A f \in DOMAIN tasks[i].found :
                   tasks[i].res[f] = tasks[i].found[f]
            /\ \A f \in ((DOMAIN tasks[i].cand) \cap Paths(seedModel))
                            \ DOMAIN tasks[i].found :
                   tasks[i].res[f] = Setter(seedModel, f, tasks[i].cand[f])

\* C2 happens: a request edited the description of a stored indicator, and a
\* seed with another description was then upserted onto it: the persisted
\* result holds the edited description.
C2_Witness ==
    /\ last.op = "update" /\ last.err = "" /\ Has(last.body, "description")
    /\ \E i \in 1..Len(tasks) :
        /\ Succeeded(i) /\ ~IsNull(tasks[i].found)
        /\ Has(tasks[i].found, "description")
        /\ tasks[i].found.description = last.body.description
        /\ Has(tasks[i].cand, "description")
        /\ tasks[i].cand.description # last.body.description
        /\ tasks[i].res.description = last.body.description
        /\ \E d \in StoredAs(tasks[i].res) :
               d.description = last.body.description

\* C3: no two stored indicators have the same subject and topic, and no two
\* stored questions have the same name.
C3_UniqueKeys ==
    /\ \A a, b \in indicators :
           (a.subject = b.subject /\ a.topic = b.topic) => a = b
    /\ \A a, b \in questions : a.name = b.name => a = b

\* C3 happens: two upserts of a seed both looked up before either wrote,
\* both found nothing, and the second insert met the unique index.
C3_Witness ==
    \E i, j \in 1..Len(tasks) :
        /\ i # j /\ Done(i) /\ Done(j)
        /\ IsNull(tasks[i].found) /\ IsNull(tasks[j].found)
        /\ tasks[i].err = "" /\ tasks[j].err = "E11000"
        /\ Cardinality(Coll(seedModel)) >= 1

\* the unique key a created document of the body would have
CreatedKey(m, body) ==
    IF m = "Indicator"
    THEN <<IF Has(body, "subject") THEN body.subject ELSE "",
           IF Has(body, "topic") THEN body.topic ELSE "">>
    ELSE IF ~IsEmpty(body, "name") THEN Trim(body.name)
    ELSE IF Has(body, "label") THEN SnakeCase(Trim(body.label))
    ELSE <<>>

StoredKey(m, d) == IF m = "Indicator" THEN <<d.subject, d.topic>> ELSE d.name

IsPost == work' = work + 1 /\ runs' = runs /\ last'.op = "post"

\* C4: a create request whose document would have the subject and topic of
\* a stored indicator, or the name of a stored question, ends in a
\* validation or duplicate-key error and changes neither collection.
C4_DuplicateCreateFails ==
    [][(IsPost /\ \E d \in Coll(last'.model) :
                     StoredKey(last'.model, d) = CreatedKey(last'.model, last'.body))
          => /\ last'.err \in {"ValidationError", "E11000"}
             /\ indicators' = indicators
             /\ questions' = questions]_vars

\* C4 happens: a question was created from a label alone, a second create
\* with the same label derived the same name, and was refused.
C4_Witness ==
    /\ last.op = "post" /\ last.model = "Question" /\ last.err = "E11000"
    /\ ~Has(last.body, "name")
    /\ \E d \in questions : d.name = SnakeCase(last.body.label)
    /\ Cardinality(questions) = 1

\* the fields of the natural key of a model that a seed supplies
NaturalKey(m, seed) ==
    (DOMAIN seed) \cap (IF m = "Indicator" THEN {"subject", "topic"} ELSE {"name"})

IsLookup(i) ==
    /\ i <= Len(tasks')
    /\ tasks[i].pc = "find"
    /\ tasks'[i].pc = "upsert"

C6_CallbackOnce ==
    /\ cb.count <= 1
    /\ (runs >= 1 /\ Idle) => cb.count = 1
    /\ (cb.count = 1 /\ cb.err = "") <=>
           (runs >= 1 /\ \A i \in 1..Len(tasks) : Succeeded(i))
    /\ (cb.count = 1 /\ cb.err = "") =>
           /\ Len(cb.results) = Len(tasks)
           /\ \A i \in 1..Len(tasks) :
                  cb.results[i] = tasks[i].res /\ ~IsNull(tasks[i].res)
    /\ firstErr # "" <=> \E i \in 1..Len(tasks) : Done(i) /\ tasks[i].err # ""
    /\ firstErr # "" => (cb.count = 1 /\ cb.err = firstErr /\ cb.results = <<>>)

\* C6 happens: two upserts of a batch failed with different errors and a
\* third succeeded; the callback was called once.
C6_Witness ==
    /\ Idle /\ cb.count = 1
    /\ \E i, j, k \in 1..Len(tasks) :
        /\ tasks[i].err # "" /\ tasks[j].err # ""
        /\ tasks[i].err # tasks[j].err
        /\ tasks[j].err = firstErr
        /\ Succeeded(k)

\* C7 as stated: after the first failure of an upsert no other upsert of
\* the batch writes to the store.
C7_NoWriteAfterFailure ==
    \A i \in 1..Len(tasks) : ~tasks[i].late

\* C7 amended: the first failure is reported at once, but nothing is
\* aborted: also after it, every upsert of the batch runs to its own end,
\* which is a validation or duplicate-key error of its own or its document
\* written to the store; none ends cancelled.
C7_FailureAbortsNothing ==
    \A i \in 1..Len(tasks) :
        Done(i) =>
            \/ tasks[i].err \in {"ValidationError", "E11000"}
            \/ tasks[i].err = "" /\ StoredAs(tasks[i].res) # {}

\* C7 happens: an upsert inserted its document after another upsert of the
\* batch had failed and the callback had the error.
C7_Witness ==
    \E i \in 1..Len(tasks) :
        /\ tasks[i].late /\ IsNull(tasks[i].found)
        /\ cb.count = 1 /\ cb.err # ""
        /\ tasks[i].res \in Coll(seedModel)

\* C8 as stated: once seed has reported an error, every document an upsert
\* of the batch persisted is in the store with the values that upsert
\* persisted.
C8_PersistedValuesStay ==
    cb.err # "" =>
        \A i \in 1..Len(tasks) :
            Succeeded(i) =>
                \E d \in StoredAs(tasks[i].res) :
                    \A f \in DOMAIN tasks[i].res :
                        Has(d, f) /\ d[f] = tasks[i].res[f]

\* C8 amended: once seed has reported an error, every document an upsert of
\* the batch persisted is still in the store, and each field that upsert
\* persisted holds the value it persisted or the value that another
\* successful upsert of the batch persisted for the same document.
C8_NothingRolledBack ==
    cb.err # "" =>
        \A i \in 1..Len(tasks) :
            Succeeded(i) =>
                \E d \in StoredAs(tasks[i].res) :
                    \A f \in DOMAIN tasks[i].res :
                        /\ Has(d, f)
                        /\ \E j \in 1..Len(tasks) :
                            /\ Succeeded(j)
                            /\ tasks[j].res._id = tasks[i].res._id
                            /\ Has(tasks[j].res, f)
                            /\ tasks[j].res[f] = d[f]

\* C8 happens: seed has reported an error, and a document that an upsert of
\* the batch inserted before the failure is in the store as inserted.
C8_Witness ==
    /\ cb.err # "" /\ Idle
    /\ \E i \in 1..Len(tasks) :
        /\ Succeeded(i) /\ ~tasks[i].late /\ IsNull(tasks[i].found)
        /\ tasks[i].res \in Coll(seedModel)
        /\ tasks[i].res \notin store0

\* C9: once the connection or a seed step of the start has reported an
\* error, no route is added, no router is mounted and the server is not
\* started, and the process has thrown the error when its start has ended.
C9_StartupErrorRethrown ==
    app.error # "" =>
        /\ ~app.root /\ ~app.mounted /\ ~app.started
        /\ app.pc \in {"exit", "serving"} => app.thrown

\* C9 happens: a seed step of the start has reported an error and the start
\* has ended.
C9_Witness ==
    /\ app.error \in {"ValidationError", "E11000"}
    /\ app.pc \in {"exit", "serving"}

\* the candidates of the running batch, in the order of the list
Candidates == [i \in 1..Len(tasks) |-> tasks[i].cand]

\* one upsert run from its lookup to its write with no other upsert between
SeqUpsert(m, coll, inds, seed, n) ==
    LET rnd == CHOOSE c \in RandomColors : TRUE
        found0 == CHOOSE f \in FindOne(coll, PrepareSeedCriteria(m, seed)) : TRUE
        isNew == IsNull(found0)
        found == IF isNew THEN New(m, seed, Oid(n), rnd) ELSE found0
    IN  PutInstance(m, coll, inds, found, isNew, PrepareUpdates(seed, found), rnd).coll

\* the upserts of a batch run one after the other in the order of the list
RECURSIVE SeqSeed(_, _, _, _, _)
SeqSeed(m, coll, inds, list, k) ==
    IF k > Len(list) THEN coll
    ELSE SeqSeed(m, SeqUpsert(m, coll, inds, list[k], k), inds, list, k + 1)

\* a collection up to the identifiers the driver generates and the random
\* default colors
Norm(coll) ==
    {[f \in DOMAIN d |->
        IF f = "_id" /\ d[f] >= Oid(0) THEN Oid(0)
        ELSE IF f = "color" /\ d[f] \in {ToUpperCase(c) : c \in RandomColors}
        THEN <<"#">>
        ELSE d[f]] : d \in coll}

\* the document a candidate makes on its own, as validated
Validated(m, seed) ==
    PreValidate(m, New(m, seed, Oid(0), CHOOSE c \in RandomColors : TRUE),
                CHOOSE c \in RandomColors : TRUE)

\* every candidate of the batch is valid, and no two have the same natural
\* key (for a question without a name, the name derived from its label)
ValidDistinctKeys ==
    LET m == seedModel
    IN  /\ \A i \in 1..Len(tasks) : Valid(m, Validated(m, tasks[i].cand), indicators)
        /\ \A i, j \in 1..Len(tasks) :
            i # j => Pick(Validated(m, tasks[i].cand), UniqueIndex(m))
                        # Pick(Validated(m, tasks[j].cand), UniqueIndex(m))

\* no candidate of the batch has an identifier, and each has every field of
\* its natural key
KeyedNoId ==
    \A i \in 1..Len(tasks) :
        /\ ~Has(tasks[i].cand, "_id")
        /\ UniqueIndex(seedModel) \subseteq DOMAIN tasks[i].cand

SameAsInOrder ==
    /\ cb.err = ""
    /\ Norm(Coll(seedModel))
         = Norm(SeqSeed(seedModel, store0, indicators, Candidates, 1))

\* C10 as stated: when every candidate of a batch is valid and no two have
\* the same natural key, then once all upserts have finished seed has
\* succeeded and the store is what the upserts run one after the other in the
\* order of the list leave, whatever the interleaving was.
C10_AnyInterleavingSameStore ==
    (runs > 0 /\ Idle /\ ValidDistinctKeys) => SameAsInOrder

\* C10 amended: when every candidate of a batch is valid, has no identifier
\* and has every field of its natural key, and no two have the same natural
\* key, then once all upserts have finished seed has succeeded and the store
\* is, up to generated identifiers and random default colors, what the
\* upserts run one after the other in the order of the list leave, whatever
\* the interleaving was.
C10_KeyedInterleavingSameStore ==
    (runs > 0 /\ Idle /\ ValidDistinctKeys /\ KeyedNoId) => SameAsInOrder

\* C10 happens: a batch of such candidates has finished, and of two that
\* each inserted a document the later of the list wrote first.
C10_Witness ==
    /\ Idle /\ ValidDistinctKeys /\ KeyedNoId
    /\ \E i, j \in 1..Len(tasks) :
        /\ i < j
        /\ IsNull(tasks[i].found) /\ IsNull(tasks[j].found)
        /\ Succeeded(i) /\ Succeeded(j)
        /\ tasks[i].res._id > tasks[j].res._id

\* "#" and hexadecimal digits after it
IsHexLike(s) ==
    /\ Len(s) >= 2
    /\ s[1] = "#"
    /\ \A i \in 2..Len(s) : s[i] \in {"A", "B", "C", "D", "E", "F"} \cup Digits

\* C11: every stored indicator, all of which were validated when written,
\* has a color that is not empty, is upper-case, and is "#" followed by
\* hexadecimal digits, whether the caller supplied it or not.
C11_ColorUpperHex ==
    \A d \in indicators :
        /\ ~IsEmpty(d, "color")
        /\ d.color = ToUpperCase(d.color)
        /\ IsHexLike(d.color)

\* C11 happens: an indicator was created with a color the caller supplied
\* and is stored.
C11_Witness ==
    /\ last.op = "post" /\ last.model = "Indicator" /\ last.err = ""
    /\ Has(last.body, "color")
    /\ \E d \in indicators : d.subject = last.body.subject /\ d.topic = last.body.topic

\* a step is an update of the document id whose request supplies a color
UpdatesColor(id) ==
    /\ tasks' = tasks
    /\ work' # work
    /\ last'.op = "update" /\ last'.id = id
    /\ Has(last'.body, "color")

\* C12: a stored indicator with a color has that color after every step
\* (a validation and save by a request, an upsert of a seed), unless the step
\* is an update of it whose request supplies a color.
C12_ColorKept ==
    [][\A d \in indicators : \A e \in indicators' :
          (e._id = d._id /\ ~IsEmpty(d, "color") /\ ~UpdatesColor(d._id))
              => (Has(e, "color") /\ e.color = d.color)]_vars

\* C12 happens: the upsert of a seed without color has written an indicator
\* that was stored with a color.
C12_Witness ==
    \E i \in 1..Len(tasks) :
        /\ seedModel = "Indicator"
        /\ Succeeded(i)
        /\ ~IsNull(tasks[i].found) /\ ~IsEmpty(tasks[i].found, "color")
        /\ ~Has(tasks[i].cand, "color")
        /\ tasks[i].res \in indicators

\* the lower-snake-case of the labels: lower-case words joined by "_",
\* punctuation stripped
ExpectedSnake(label) ==
    CASE label = WaterSupplyLabel -> WaterSupplyName
      [] label = CamelLabel -> WaterSupplyName
      [] label = FoodLabel -> FoodName
      [] label = MixedLabel -> MixedName
      [] OTHER -> <<>>

\* a step is a request about a question
IsQuestionRequest == seedModel = "Question" /\ work' = work + 1 /\ tasks' = tasks

\* the name a request supplies, trimmed; empty when it supplies none
SuppliedName(body) == IF Has(body, "name") THEN Trim(body.name) ELSE <<>>

Nameless(body) ==
    /\ SuppliedName(body) = <<>>
    /\ ~Has(body, "label") \/ Trim(body.label) = <<>>

\* C14: the creation of a question with neither a name nor a non-empty
\* label ends in a validation error, and stores nothing.
C14_NamelessCreateFails ==
    [][(IsQuestionRequest /\ last'.op = "post" /\ Nameless(last'.body)) =>
          /\ last'.err = "ValidationError"
          /\ questions' = questions]_vars

\* C14 happens: a question with neither name nor label, whose indicator is
\* stored, was refused.
C14_Witness ==
    /\ last.op = "post" /\ last.model = "Question"
    /\ Nameless(last.body)
    /\ \E d \in indicators : d._id = last.body.indicator
    /\ last.err = "ValidationError"

\* what a read shows for a reference: null, or the identifier, subject,
\* topic and color of the stored indicator it names and nothing more, so no
\* base inside it
IsProjection(p) ==
    \/ IsNull(p)
    \/ /\ DOMAIN p \subseteq {"_id", "subject", "topic", "color"}
       /\ \E r \in indicators :
            /\ r._id = p._id
            /\ DOMAIN p = DOMAIN r \cap {"_id", "subject", "topic", "color"}
            /\ \A g \in DOMAIN p : p[g] = r[g]

IsShallow(m, doc) ==
    \A f \in DOMAIN doc : f \in {"base", "indicator"} => IsProjection(doc[f])

\* C15: every indicator and question that a get or a list has answered
\* shows its base, its indicator, as that projection of the stored
\* indicator, one level deep, also when the bases form a cycle.
C15_PopulatedOneLevel ==
    /\ (last.op = "get" /\ last.err = "" /\ last.model \in Models)
           => IsShallow(last.model, last.json)
    /\ (last.op = "list" /\ last.model \in Models)
           => \A d \in last.json.data : IsShallow(last.model, d)

\* C15 happens: an indicator was read whose base names an indicator whose
\* base names the first.
C15_Witness ==
    /\ last.op = "get" /\ last.model = "Indicator" /\ last.err = ""
    /\ ~IsNull(last.json.base)
    /\ last.json.base._id # last.id
    /\ \E r \in indicators : r._id = last.json.base._id /\ Has(r, "base") /\ r.base = last.id

\* C16: a handler that has answered has either forwarded an error and
\* written no response, or forwarded none and written a response with its
\* document and status 201 after a create and 200 otherwise.
C16_ErrorOrResponse ==
    last.op # "none" =>
        \/ last.err # "" /\ last.status = 0 /\ IsNull(last.json)
        \/ /\ last.err = ""
           /\ last.status = (IF last.op = "post" THEN 201 ELSE 200)
           /\ ~IsNull(last.json)

\* C16 happens: a create was refused, its error forwarded.
C16_Witness ==
    /\ last.op = "post" /\ last.err \in {"ValidationError", "E11000"}
    /\ last.status = 0

\* a step is a request
IsRequest == work' = work + 1 /\ tasks' = tasks

C18_DeleteNoCascade ==
    [][(IsRequest /\ last'.op = "delete" /\ last'.err = "")
          => LET rest(m, coll) == IF last'.model = m
                                  THEN {d \in coll : d._id # last'.id} ELSE coll
             IN  /\ indicators' = rest("Indicator", indicators)
                 /\ questions' = rest("Question", questions)
                 /\ questionnaires' = rest("Questionnaire", questionnaires)]_vars

\* C18 happens: an indicator was deleted, and a question that refers to it
\* is stored.
C18_Witness ==
    /\ last.op = "delete" /\ last.model = "Indicator" /\ last.err = ""
    /\ \A d \in indicators : d._id # last.id
    /\ \E q \in questions : q.indicator = last.id

\* C19: once seed has been called, its upserts are exactly the distinct
\* non-null entries of the list it was given: no upsert is for a null entry,
\* every entry that is not null has one and only one upsert (so equal
\* entries share one, and entries that differ in a field each have their
\* own), and every upsert is for an entry of the list.
C19_DistinctCandidatesOnce ==
    runs > 0 =>
        /\ \A i \in 1..Len(tasks) : ~IsNull(tasks[i].cand)
        /\ \A k \in 1..Len(seeds) :
               ~IsNull(seeds[k]) =>
                   Cardinality({i \in 1..Len(tasks) : tasks[i].cand = seeds[k]}) = 1
        /\ \A i \in 1..Len(tasks) :
               \E k \in 1..Len(seeds) : seeds[k] = tasks[i].cand

\* C19 happens: a list with two equal entries and a third of the same
\* natural key that differs from them in a field was seeded, its two upserts
\* have finished, and both succeeded.
C19_Witness ==
    /\ runs > 0 /\ Idle
    /\ Len(seeds) = 3 /\ Len(tasks) = 2
    /\ \E j, k \in 1..Len(seeds) : j < k /\ seeds[j] = seeds[k]
    /\ tasks[1].cand # tasks[2].cand
    /\ PrepareSeedCriteria(seedModel, tasks[1].cand)
           = PrepareSeedCriteria(seedModel, tasks[2].cand)
    /\ Succeeded(1) /\ Succeeded(2)

\* a candidate names a stored record by its identifier when it has one, and
\* otherwise by its natural key, every field of which it supplies
NamedBy(m, cand, d) ==
    IF Has(cand, "_id") THEN d._id = cand._id
    ELSE \A f \in UniqueIndex(m) : Has(cand, f) /\ Has(d, f) /\ d[f] = cand[f]

\* a Question candidate with a label and neither identifier nor name
NamelessQuestion(cand) ==
    /\ seedModel = "Question"
    /\ ~Has(cand, "_id") /\ ~Has(cand, "name")
    /\ Has(cand, "label")

\* the step is the write of the upsert i
Upserts(i) == tasks[i].pc = "upsert" /\ tasks'[i].pc = "done"

\* the write of the upsert i changes one stored record, the one its lookup
\* found and the candidate names, or adds one record with an identifier no
\* stored record has, or changes nothing
OneRecord(i) ==
    LET old == Coll(seedModel)
        new == Coll(seedModel)'
        gone == old \ new
        come == new \ old
    IN  /\ Cardinality(gone) <= 1 /\ Cardinality(come) <= 1
        /\ \A d \in gone :
               /\ ~IsNull(tasks[i].found)
               /\ d._id = tasks[i].found._id
               /\ NamedBy(seedModel, tasks[i].cand, tasks[i].found)
               /\ \E e \in come : e._id = d._id
        /\ gone = {} => \A e \in come : \A d \in old : d._id # e._id

\* the write of the upsert i of a nameless question that succeeds had found
\* no stored question, changes none, and adds one named by the label
NamelessInserted(i) ==
    (NamelessQuestion(tasks[i].cand) /\ tasks'[i].err = "") =>
        /\ IsNull(tasks[i].found)
        /\ questions \subseteq questions'
        /\ \E e \in questions' \ questions :
               e.name = SnakeCase(tasks[i].cand.label)

\* C20: the write of an upsert changes or creates at most one record, the
\* one the candidate names by its identifier or natural key or a new one,
\* and leaves every other record as it was; and the upsert of a Question
\* candidate with a label and neither identifier nor name inserts a new
\* Question named by the snake case of the label, no stored Question being
\* matched or changed.
C20_UpsertOneRecord ==
    [][\A i \in 1..Len(tasks) :
          Upserts(i) => (OneRecord(i) /\ NamelessInserted(i))]_vars

\* C20 fails: the upsert of a Question candidate with a label and neither
\* identifier nor name has succeeded, it had matched a stored question, and
\* no stored question is named by the snake case of its label.
C20_Witness ==
    \E i \in 1..Len(tasks) :
        /\ NamelessQuestion(tasks[i].cand)
        /\ Succeeded(i)
        /\ ~IsNull(tasks[i].found)
        /\ tasks[i].criteria = Pick(tasks[i].cand, {})
        /\ \A d \in questions : d.name # SnakeCase(tasks[i].cand.label)

\* two entries without identifier that are looked up by the same natural
\* key and differ in some other field
SameKeyDiffer(m, a, b) ==
    /\ ~IsNull(a) /\ ~IsNull(b)
    /\ ~Has(a, "_id") /\ ~Has(b, "_id")
    /\ DOMAIN PrepareSeedCriteria(m, a) # {}
    /\ PrepareSeedCriteria(m, a) = PrepareSeedCriteria(m, b)
    /\ a # b

\* the upserts i and j are of two such candidates, both looked up before
\* either wrote and found nothing, and both have finished
BothInsert(i, j) ==
    /\ i < j
    /\ SameKeyDiffer(seedModel, tasks[i].cand, tasks[j].cand)
    /\ Done(i) /\ Done(j)
    /\ IsNull(tasks[i].found) /\ IsNull(tasks[j].found)

\* C21: two entries of a seeded list with the same natural key and a
\* different value in another field both have an upsert; and when the two
\* upserts both looked up before either wrote and found nothing, then once
\* both have finished exactly one record of the key is stored, one of the two
\* failed with a uniqueness error, and seed has called back once with an
\* error, which is the uniqueness error unless another upsert of the batch
\* failed first.
C21_SameKeyRace ==
    /\ runs > 0 =>
           \A j, k \in 1..Len(seeds) :
               SameKeyDiffer(seedModel, seeds[j], seeds[k]) =>
                   \E a, b \in 1..Len(tasks) :
                       a # b /\ tasks[a].cand = seeds[j] /\ tasks[b].cand = seeds[k]
    /\ \A i, j \in 1..Len(tasks) :
           BothInsert(i, j) =>
               /\ Cardinality({d \in Coll(seedModel) :
                       Matches(d, PrepareSeedCriteria(seedModel, tasks[i].cand))}) = 1
               /\ \E a \in {i, j} : tasks[a].err = "E11000"
               /\ cb.count = 1
               /\ cb.err # ""
               /\ \/ cb.err = "E11000"
                  \/ \E k \in 1..Len(tasks) : k \notin {i, j} /\ tasks[k].err = cb.err

\* C21 happens: a batch of exactly two such candidates, seeded on a store
\* with no record of their key, has finished with both upserts having found
\* nothing; one inserted and the other failed.
C21_Witness ==
    /\ Len(tasks) = 2 /\ BothInsert(1, 2)
    /\ store0 = {}
    /\ \E a, b \in {1, 2} : Succeeded(a) /\ tasks[b].err = "E11000"
    /\ cb.err = "E11000"

\* the step is the lookup of the upsert i
Looks(i) == tasks[i].pc = "find" /\ tasks'[i].pc = "upsert"

\* no stored record has the identifier of the candidate, and a stored
\* record has its natural key
KeyStoredIdNot(m, cand) ==
    /\ Has(cand, "_id")
    /\ \A d \in Coll(m) : d._id # cand._id
    /\ \E d \in Coll(m) :
           \A f \in UniqueIndex(m) : Has(cand, f) /\ Has(d, f) /\ d[f] = cand[f]

\* C22: the lookup of a candidate with an identifier is by the identifier
\* alone, and finds a record exactly when one has the identifier; and the
\* write of the upsert of such a candidate, when no stored record has its
\* identifier and one has its natural key, is after a lookup that found
\* nothing, fails with a uniqueness error, and leaves the collection as it
\* was.
C22_IdOnlyLookup ==
    [][\A i \in 1..Len(tasks) :
          /\ (Looks(i) /\ Has(tasks[i].cand, "_id")) =>
                 /\ tasks'[i].criteria = Pick(tasks[i].cand, {"_id"})
                 /\ IsNull(tasks'[i].found)
                        <=> (\A d \in Coll(seedModel) : d._id # tasks[i].cand._id)
          /\ (Upserts(i) /\ KeyStoredIdNot(seedModel, tasks[i].cand)) =>
                 /\ IsNull(tasks[i].found)
                 /\ tasks'[i].err = "E11000"
                 /\ Coll(seedModel)' = Coll(seedModel)]_vars

\* C22 happens: the upsert of a candidate with an identifier has failed with
\* a uniqueness error after a lookup by the identifier that found nothing,
\* no stored record has the identifier, and one has the natural key.
C22_Witness ==
    \E i \in 1..Len(tasks) :
        /\ Done(i) /\ tasks[i].err = "E11000"
        /\ IsNull(tasks[i].found)
        /\ tasks[i].criteria = Pick(tasks[i].cand, {"_id"})
        /\ KeyStoredIdNot(seedModel, tasks[i].cand)

\* the seeds of a start, in the order of its waterfall
SeedOrder == <<"Indicator", "Question", "Questionnaire">>

IsPrefix(a, b) ==
    /\ Len(a) <= Len(b)
    /\ \A i \in 1..Len(a) : a[i] = b[i]

\* the seeds were called in the order Indicators, Questions,
\* Questionnaires, each when those before it had called back with no error
\* and their upserts had all finished
SeededInOrder ==
    /\ IsPrefix(app.begun, SeedOrder)
    /\ IsPrefix(app.seeded, app.begun)
    /\ Len(app.begun) <= Len(app.seeded) + 1
    /\ app.pc \in {"seedQuestions", "seedQuestionnaires"} =>
           (Idle /\ cb.count = 1 /\ cb.err = "")

\* C23: in a start the seeds are called in the order Indicators, Questions,
\* Questionnaires, each only when the one before it has called back, and the
\* routers are mounted and the server is started only when all three seeds
\* have completed.
C23_SeedsInOrderThenServe ==
    /\ SeededInOrder
    /\ (app.mounted \/ app.started) => app.seeded = SeedOrder

\* C23 fails: the seed example has started the server when the seed of the
\* indicators had reported an error, and the seeds of the questions and of
\* the questionnaires were never called.
C23_Witness ==
    /\ app.script = "seed"
    /\ app.started
    /\ app.begun = <<"Indicator">> /\ app.seeded = <<>>
    /\ app.error \in {"ValidationError", "E11000"}

\* C24: when seed has called back with no error, it has reported one record
\* for every candidate of the deduplicated list, and the i-th record is the
\* one the upsert of the i-th candidate persisted: it is the result of that
\* upsert, it has the identifier of the candidate or else matches its
\* natural key, and a record of its identifier is stored.
C24_ResultsInListOrder ==
    (runs > 0 /\ cb.count = 1 /\ cb.err = "") =>
        /\ Len(cb.results) = Len(tasks)
        /\ \A i \in 1..Len(tasks) :
               /\ Succeeded(i)
               /\ cb.results[i] = tasks[i].res
               /\ Matches(cb.results[i], PrepareSeedCriteria(seedModel, tasks[i].cand))
               /\ \E d \in Coll(seedModel) : d._id = cb.results[i]._id

\* C24 happens: seed has called back with no error for two candidates that
\* each inserted a record of another natural key, the second of the list
\* having written before the first.
C24_Witness ==
    /\ cb.count = 1 /\ cb.err = ""
    /\ Len(tasks) = 2
    /\ IsNull(tasks[1].found) /\ IsNull(tasks[2].found)
    /\ cb.results[1]._id > cb.results[2]._id
    /\ PrepareSeedCriteria(seedModel, tasks[1].cand)
           # PrepareSeedCriteria(seedModel, tasks[2].cand)
    /\ ~Matches(cb.results[2], PrepareSeedCriteria(seedModel, tasks[1].cand))

\* the paths of a request for the schema
SchemaPaths == {<<"questionnaires", "schema">>, <<"questionnaires", "schema", "">>}

\* C25: a GET of the path of the schema, with or without "/" at its end, is
\* dispatched to the handler of the schema, which answers with status 200 and
\* the schema and forwards no error; it is never a read of the questionnaire
\* of id "schema".
C25_SchemaRouteFirst ==
    [][\A path \in SchemaPaths :
          Request("GET", path, Null) =>
              /\ Handler("GET", path) = "getQuestionnaireSchema"
              /\ last'.op = "schema" /\ last'.status = 200 /\ last'.err = ""
              /\ last'.json = [title |-> "Questionnaire",
                               properties |-> Paths("Questionnaire")]]_vars

\* C25 happens: a GET of the path of the schema has been answered, and the
\* path is one that the route of a single questionnaire matches as well.
C25_Witness ==
    /\ last.op = "schema" /\ last.status = 200
    /\ \A path \in SchemaPaths : MatchPath(PATH_SINGLE, path)

====
